---- MODULE Spec2Model ----
(***************************************************************************)
(* commit_compare: the commit traversal (gittools.GitRepo.iter_commits),   *)
(* the command runner (compare.run_commands) and the traversal, ingest and *)
(* report phases of compare.main, as one state machine.                    *)
(*                                                                         *)
(* Text is modelled as sequences of characters where the code slices or    *)
(* prefix-matches it (hashes, column names) and as plain strings elsewhere *)
(* (cell values).  A Python None or empty value is the empty sequence.     *)
(***************************************************************************)
EXTENDS Integers, Sequences, FiniteSets, TLC

VARIABLES
    repo_commits,        \* what self.repo.iter_commits() returns, in git's order
    start_date, end_date, start_commit, end_commit, select_commits,
    ignore_col, alt_commands,
    iter_pos,            \* the generator's position in the sorted list (last examined)
    found_start_commit,  \* gittools.py:25
    iter_exit,           \* how the generator's loop ended, "" while it is alive
    head,                \* the commit checked out in the working tree, <<>> for none
    yielded,             \* the commits yielded so far, in order
    pc,                  \* main's position
    commit,              \* main's loop variable, <<>> before the first commit
    cmd_idx,             \* run_commands: index of the candidate being run
    failed,              \* run_commands: local list `failed`
    errors,              \* main: result of run_commands
    execs,               \* stderr text of every execution for the current commit
    outfile,             \* the output file: <<>> when absent, else <<[csv, written_at]>>
    commits, data,       \* main: `commits` and `data`
    ingested,            \* log of the snapshots folded into data
    field_idx, list_of_sums, figures, line_failed, sum_df, no_data_warning

cursorVars == <<repo_commits, start_date, end_date, start_commit, end_commit,
                select_commits, iter_pos, found_start_commit, iter_exit, head, yielded>>
runVars == <<ignore_col, alt_commands, commit, cmd_idx, failed, errors, execs, outfile,
             commits, data, ingested>>
reportVars == <<field_idx, list_of_sums, figures, line_failed, sum_df, no_data_warning>>
vars == <<cursorVars, runVars, reportVars, pc>>

(***************************************************************************)
(* Bounds                                                                  *)
(***************************************************************************)
\* commits in a history of the traversal specification
MaxCommits == 3
\* commits in a history of the run specification
MaxRunCommits == 2
\* length of a short hash; the code's hexsha[:8] of a 40 digit hash, scaled to
\* the 3 digit hashes of Hexshas
ShortLen == 2

\* the hash of the i-th commit of a history; the first two share their short hash
Hexshas ==
    << <<"a", "a", "a">>, <<"a", "a", "b">>, <<"b", "a", "a">>,
       <<"a", "b", "a">>, <<"b", "b", "a">>, <<"b", "a", "b">> >>
\* commit timestamps (seconds since the epoch, UTC)
Times == {1, 2, 3}
\* UTC offsets of the commits' time zones
TzOffsets == {0, 1}

Last(s) == s[Len(s)]

\* str.startswith
StartsWith(s, p) == Len(p) <= Len(s) /\ SubSeq(s, 1, Len(p)) = p

(***************************************************************************)
(* gittools.GitRepo.iter_commits                                           *)
(***************************************************************************)
\* datetime < datetime of two aware datetimes: by instant
DtLess(a, b) == a.utc < b.utc

\* naive.replace(tzinfo=tz): the wall-clock reading d taken in zone tz
ReplaceTz(d, tz) == [utc |-> d - tz, tz |-> tz]

RECURSIVE InsertSorted(_, _)
\* insert c after every element that is not later than it (stable)
InsertSorted(s, c) ==
    IF s = <<>> THEN <<c>>
    ELSE IF DtLess(c.committed_datetime, Last(s).committed_datetime)
         THEN Append(InsertSorted(SubSeq(s, 1, Len(s) - 1), c), Last(s))
         ELSE Append(s, c)

RECURSIVE SortedPrefix(_, _)
SortedPrefix(s, n) ==
    IF n = 0 THEN <<>> ELSE InsertSorted(SortedPrefix(s, n - 1), s[n])

\* the commits in git's order, unsorted
Mut_SortedCommits(s) == s

\* sorted(self.repo.iter_commits(), key=lambda c: c.committed_datetime)
SortedCommits(s) == SortedPrefix(s, Len(s))

\* GitRepo._commit_hexsha_in: True, or None (falsy) when no prefix matches
CommitHexshaIn(c, sel) == \E i \in 1..Len(sel) : StartsWith(c.hexsha, sel[i])

\* One pass of the loop body over commit c: the if/elif chain of lines 27-40.
\* verdict "continue" and "break" are the statements; "yield" falls through to
\* the checkout and the yield of lines 41-42.
Examine(c, found) ==
    IF start_date # <<>>
       /\ DtLess(c.committed_datetime, ReplaceTz(start_date[1], c.committed_datetime.tz))
    THEN [verdict |-> "continue", found |-> found, why |-> "start_date"]
    ELSE IF end_date # <<>>
            /\ DtLess(ReplaceTz(end_date[1], c.committed_datetime.tz), c.committed_datetime)
    THEN [verdict |-> "break", found |-> found, why |-> "end_date"]
    ELSE IF start_commit # <<>> /\ ~found
    THEN IF StartsWith(c.hexsha, start_commit)
         THEN [verdict |-> "yield", found |-> TRUE, why |-> "start_commit"]
         ELSE [verdict |-> "continue", found |-> found, why |-> "start_commit"]
    ELSE IF end_commit # <<>> /\ found /\ StartsWith(c.hexsha, end_commit)
    THEN [verdict |-> "break", found |-> found, why |-> "end_commit"]
    ELSE IF select_commits # <<>>
    THEN IF ~CommitHexshaIn(c, select_commits)
         THEN [verdict |-> "continue", found |-> found, why |-> "select_commits"]
         ELSE [verdict |-> "yield", found |-> found, why |-> "select_commits"]
    ELSE [verdict |-> "yield", found |-> found, why |-> "none"]

RECURSIVE Resume(_, _, _)
\* Run the generator from position pos (last examined) to its next yield or its end.
Resume(sorted, pos, found) ==
    IF pos >= Len(sorted)
    THEN [kind |-> "stop", pos |-> pos, found |-> found, why |-> "exhausted"]
    ELSE LET r == Examine(sorted[pos + 1], found) IN
         CASE r.verdict = "continue" -> Resume(sorted, pos + 1, r.found)
           [] r.verdict = "break" ->
                [kind |-> "stop", pos |-> pos + 1, found |-> r.found, why |-> r.why]
           [] OTHER ->
                [kind |-> "yield", pos |-> pos + 1, found |-> r.found, why |-> r.why]

\* next(generator): the loop runs to `yield commit`, after repo.git.checkout(commit)
IterNext ==
    /\ pc = "iter"
    /\ LET sorted == SortedCommits(repo_commits)
           r == Resume(sorted, iter_pos, found_start_commit) IN
       /\ r.kind = "yield"
       /\ iter_pos' = r.pos
       /\ found_start_commit' = r.found
       /\ head' = <<sorted[r.pos]>>
       /\ yielded' = Append(yielded, sorted[r.pos])
       /\ commit' = <<sorted[r.pos]>>
    /\ pc' = "body"
    \* the locals of the caller's loop body start afresh for the new commit
    /\ cmd_idx' = 1
    /\ failed' = <<>>
    /\ errors' = <<>>
    /\ execs' = <<>>
    /\ UNCHANGED <<repo_commits, start_date, end_date, start_commit, end_commit,
                   select_commits, iter_exit, ignore_col, alt_commands, outfile,
                   commits, data, ingested, reportVars>>

\* next(generator) raises StopIteration: the for loop ended or hit a break
IterStop ==
    /\ pc = "iter"
    /\ LET r == Resume(SortedCommits(repo_commits), iter_pos, found_start_commit) IN
       /\ r.kind = "stop"
       /\ iter_pos' = r.pos
       /\ found_start_commit' = r.found
       /\ iter_exit' = r.why
    /\ pc' = "end"
    \* the locals of the caller's loop body are dead once the loop is over
    /\ cmd_idx' = 1
    /\ failed' = <<>>
    /\ errors' = <<>>
    /\ execs' = <<>>
    /\ UNCHANGED <<repo_commits, start_date, end_date, start_commit, end_commit,
                   select_commits, head, yielded, ignore_col, alt_commands, commit,
                   outfile, commits, data, ingested, reportVars>>

\* a caller that only collects the commits: list(repo.iter_commits(...))
Consume ==
    /\ pc = "body"
    /\ pc' = "iter"
    /\ UNCHANGED <<cursorVars, runVars, reportVars>>

Histories(n) ==
    { h \in [1..n -> [hexsha : {Hexshas[i] : i \in 1..n},
                      committed_datetime : [utc : Times, tz : TzOffsets]]] :
        \A i \in 1..n : h[i].hexsha = Hexshas[i] }

DateArgs == {<<>>, <<2>>, <<3>>}
PrefixArgs == {<<>>, <<"a">>, <<"a", "a", "b">>}
SelectArgs == {<<>>, << <<"b">> >>, << <<"a", "b">>, <<"a", "a", "b">> >>}

InitRun ==
    /\ ignore_col = {}
    /\ alt_commands = <<>>
    /\ commit = <<>>
    /\ cmd_idx = 1
    /\ failed = <<>>
    /\ errors = <<>>
    /\ execs = <<>>
    /\ outfile = <<>>
    /\ commits = <<>>
    /\ data = <<>>
    /\ ingested = <<>>

InitReport ==
    /\ field_idx = 0
    /\ list_of_sums = <<>>
    /\ figures = <<>>
    /\ line_failed = {}
    /\ sum_df = <<>>
    /\ no_data_warning = FALSE

InitCursor ==
    /\ repo_commits \in UNION {Histories(n) : n \in 0..MaxCommits}
    /\ start_date \in DateArgs
    /\ end_date \in DateArgs
    /\ start_commit \in PrefixArgs
    /\ end_commit \in PrefixArgs
    /\ select_commits \in SelectArgs
    /\ iter_pos = 0
    /\ found_start_commit = FALSE
    /\ iter_exit = ""
    /\ head = <<>>
    /\ yielded = <<>>
    /\ pc = "iter"
    /\ InitRun
    /\ InitReport

NextCursor == IterNext \/ IterStop \/ Consume

SpecCursor == InitCursor /\ [][NextCursor]_vars

(***************************************************************************)
(* compare.run_commands                                                    *)
(***************************************************************************)
\* A text is the sequence of the fragments it holds; `x in text` is a search
\* for a fragment.
Contains(text, frag) == \E i \in 1..Len(text) : text[i] = frag

\* str.lower, on the fragments that hold capitals
LowerFrag(f) ==
    CASE f = "ERROR:" -> "error:"
      [] f = "Errno" -> "errno"
      [] f = "You are using pip" -> "you are using pip"
      [] OTHER -> f
Lower(text) == [i \in 1..Len(text) |-> LowerFrag(text[i])]

RECURSIVE Join(_, _)
\* sep.join(texts)
Join(sep, texts) ==
    IF texts = <<>> THEN <<>>
    ELSE IF Len(texts) = 1 THEN texts[1]
    ELSE texts[1] \o <<sep>> \o Join(sep, Tail(texts))

\* what a subprocess may leave on its standard error
Stderrs ==
    { <<>>,
      <<"You are using pip">>,
      <<"error:">>,
      <<"You are using pip", "error:">>,
      <<"ERROR:", "requirements.txt">>,
      <<"Errno">> }

id_col == <<"i", "d">>
FieldF == <<"f">>
FieldS == <<"s">>
NaN == "NaN"

\* the text of the cell of column col in the record of identifier id
Cell(col, id) ==
    IF col = id_col \/ col = FieldF THEN id
    ELSE IF id = "1" THEN "a" ELSE "True"

CsvFile(cols, ids) ==
    [columns |-> cols,
     rows |-> [i \in 1..Len(ids) |-> [j \in 1..Len(cols) |-> Cell(cols[j], ids[i])]]]

EmptyCsv == [columns |-> <<>>, rows |-> <<>>]

\* the files a command may write to outfile
CsvFiles ==
    {EmptyCsv} \cup
    { CsvFile(c, i) : c \in {<<id_col, FieldF>>, <<id_col, FieldS, FieldF>>,
                            <<id_col, FieldF, FieldS>>, <<FieldF>>},
                      i \in {<<"1">>, <<"2">>, <<"1", "2">>, <<"1", "1">>} }

\* what a subprocess does to outfile: nothing, or it writes one of CsvFiles
Writes == {<<>>} \cup {<<f>> : f \in CsvFiles}

\* commands = (run_command, *alt_commands)
Commands == <<"command">> \o alt_commands

\* line 50
HasErrorMarker(err) == Contains(Lower(err), "errno") \/ Contains(Lower(err), "error:")

\* lines 40-41
DropPipNotice(err) == IF Contains(err, "You are using pip") THEN <<>> ELSE err

\* the file after a subprocess ran with commit `head` checked out
Written(w) ==
    IF w = <<>> THEN outfile ELSE <<[csv |-> w[1], written_at |-> head[1].hexsha]>>

\* lines 50-54: the verdict on one candidate, and the loop's next step
Judge(err) ==
    IF HasErrorMarker(err)
    THEN /\ failed' = Append(failed, err)
         /\ IF cmd_idx < Len(Commands)
            THEN cmd_idx' = cmd_idx + 1 /\ pc' = "body" /\ errors' = errors
            ELSE cmd_idx' = cmd_idx /\ pc' = "read"
                 /\ errors' = Join("; ", Append(failed, err))
    ELSE /\ failed' = failed
         /\ cmd_idx' = cmd_idx
         /\ errors' = <<>>
         /\ pc' = "read"

\* lines 36-43 and, when no retry is due, 50-54: the candidate's subprocess
RunCandidate ==
    /\ pc = "body"
    /\ \E stderr \in Stderrs, w \in Writes :
          LET err == DropPipNotice(stderr) IN
          /\ execs' = Append(execs, stderr)
          /\ outfile' = Written(w)
          /\ IF Contains(err, "requirements.txt")
             THEN pc' = "retry" /\ UNCHANGED <<failed, cmd_idx, errors>>
             ELSE Judge(err)
    /\ UNCHANGED <<cursorVars, ignore_col, alt_commands, commit, commits, data,
                   ingested, reportVars>>

\* lines 44-54: the same candidate again, with pre_command_no_pip
RetryNoPip ==
    /\ pc = "retry"
    /\ \E stderr \in Stderrs, w \in Writes :
          /\ execs' = Append(execs, stderr)
          /\ outfile' = Written(w)
          /\ Judge(stderr)
    /\ UNCHANGED <<cursorVars, ignore_col, alt_commands, commit, commits, data,
                   ingested, reportVars>>

(***************************************************************************)
(* compare.main: the traversal loop                                        *)
(***************************************************************************)
\* commit.hexsha[:8]
ShortHash(hexsha) == SubSeq(hexsha, 1, ShortLen)

ColIndex(df, name) == CHOOSE j \in 1..Len(df.columns) : df.columns[j] = name
HasColumn(df, name) == \E j \in 1..Len(df.columns) : df.columns[j] = name

\* df[[a, b]] with the columns renamed to (a, newname)
Project(df, a, b, newname) ==
    [columns |-> <<a, newname>>,
     rows |-> [i \in 1..Len(df.rows) |->
                  <<df.rows[i][ColIndex(df, a)], df.rows[i][ColIndex(df, b)]>>]]

\* the order in which an outer join lists the keys
KeyOrder == <<"1", "2">>

RowsOfKey(df, k) == SelectSeq(df.rows, LAMBDA r : r[1] = k)

\* the rows of the outer join for key k
MergeKey(left, right, k) ==
    LET lr == RowsOfKey(left, k)
        rr == RowsOfKey(right, k)
    IN  IF lr = <<>>
        THEN [i \in 1..Len(rr) |->
                 <<k>> \o [j \in 1..(Len(left.columns) - 1) |-> NaN] \o <<rr[i][2]>>]
        ELSE IF rr = <<>>
        THEN [i \in 1..Len(lr) |-> Append(lr[i], NaN)]
        ELSE [n \in 1..(Len(lr) * Len(rr)) |->
                 Append(lr[((n - 1) \div Len(rr)) + 1], rr[((n - 1) % Len(rr)) + 1][2])]

RECURSIVE MergeRows(_, _, _)
MergeRows(left, right, n) ==
    IF n = 0 THEN <<>>
    ELSE MergeRows(left, right, n - 1) \o MergeKey(left, right, KeyOrder[n])

\* an inner join: only the keys of both sides
Mut_Merge(left, right) ==
    [columns |-> Append(left.columns, right.columns[2]),
     rows |-> MergeRows([left EXCEPT !.rows =
                            SelectSeq(left.rows,
                                      LAMBDA r : RowsOfKey(right, r[1]) # <<>>)],
                        [right EXCEPT !.rows =
                            SelectSeq(right.rows,
                                      LAMBDA r : RowsOfKey(left, r[1]) # <<>>)],
                        Len(KeyOrder))]

\* pd.merge(left, right, on=id_col, how='outer'), right being (id_col, name):
\* a column of both sides gets the suffixes _x (left) and _y (right)
Merge(left, right) ==
    LET name == right.columns[2]
        overlap == \E j \in 2..Len(left.columns) : left.columns[j] = name
    IN  [columns |->
            [j \in 1..Len(left.columns) |->
                IF j > 1 /\ left.columns[j] = name
                THEN name \o <<"_", "x">> ELSE left.columns[j]]
            \o <<IF overlap THEN name \o <<"_", "y">> ELSE name>>,
         rows |-> MergeRows(left, right, Len(KeyOrder))]

\* lines 158-163 for one column
IngestCol(d, df, col, short) ==
    LET col_df == Project(df, id_col, col, short) IN
    IF \E i \in 1..Len(d) : d[i].field = col
    THEN LET i == CHOOSE i \in 1..Len(d) : d[i].field = col IN
         [d EXCEPT ![i].df = Merge(d[i].df, col_df)]
    ELSE Append(d, [field |-> col, df |-> col_df])

RECURSIVE IngestCols(_, _, _, _)
\* lines 157-163: the loop over the first n columns of df
IngestCols(d, df, n, short) ==
    IF n = 0 THEN d
    ELSE LET before == IngestCols(d, df, n - 1, short)
             col == df.columns[n]
         IN  IF col # id_col /\ col \notin ignore_col
             THEN IngestCol(before, df, col, short)
             ELSE before

\* lines 144-146: the command failed, on to the next commit
CommandFailed ==
    /\ pc = "read"
    /\ errors # <<>>
    /\ pc' = "iter"
    /\ UNCHANGED <<cursorVars, runVars, reportVars>>

\* line 149 with no file at outfile: FileNotFoundError, which nothing catches
OutputMissing ==
    /\ pc = "read"
    /\ errors = <<>>
    /\ outfile = <<>>
    /\ pc' = "FileNotFoundError"
    /\ UNCHANGED <<cursorVars, runVars, reportVars>>

\* lines 150-152: EmptyDataError
EmptyData ==
    /\ pc = "read"
    /\ errors = <<>>
    /\ outfile # <<>>
    /\ outfile[1].csv.columns = <<>>
    /\ pc' = "iter"
    /\ UNCHANGED <<cursorVars, runVars, reportVars>>

\* lines 153-155: no id column
MissingIdCol ==
    /\ pc = "read"
    /\ errors = <<>>
    /\ outfile # <<>>
    /\ outfile[1].csv.columns # <<>>
    /\ ~HasColumn(outfile[1].csv, id_col)
    /\ pc' = "iter"
    /\ UNCHANGED <<cursorVars, runVars, reportVars>>

\* lines 149 and 156-163
Ingest ==
    /\ pc = "read"
    /\ errors = <<>>
    /\ outfile # <<>>
    /\ HasColumn(outfile[1].csv, id_col)
    /\ LET df == outfile[1].csv
           short == ShortHash(commit[1].hexsha)
       IN  /\ commits' = Append(commits, short)
           /\ data' = IngestCols(data, df, Len(df.columns), short)
           /\ ingested' = Append(ingested, [hexsha |-> commit[1].hexsha, df |-> df,
                                            written_at |-> outfile[1].written_at])
    /\ pc' = "iter"
    /\ UNCHANGED <<cursorVars, ignore_col, alt_commands, commit, cmd_idx, failed,
                   errors, execs, outfile, reportVars>>

(***************************************************************************)
(* compare.main: the report                                                *)
(***************************************************************************)
NumVal(text) ==
    CASE text = "1" -> 1
      [] text = "2" -> 2
      [] OTHER -> 0

IsNumberText(text) == text \in {"1", "2"}

ColumnValues(df, j) == [i \in 1..Len(df.rows) |-> df.rows[i][j]]

\* the dtype pandas gives a column of these values: a number column (int64,
\* or float64 once it holds NaN), bool, or object
Dtype(vals) ==
    IF \A i \in 1..Len(vals) : IsNumberText(vals[i]) \/ vals[i] = NaN THEN "float64"
    ELSE IF \A i \in 1..Len(vals) : vals[i] \in {"True", "False"} THEN "bool"
    ELSE "O"

\* line 172
IsNumeric(df) ==
    /\ Dtype(ColumnValues(df, 2)) \notin {"O", "bool"}
    /\ Dtype(ColumnValues(df, Len(df.columns))) \notin {"O", "bool"}

\* line 170
Cols(df) == SelectSeq(commits, LAMBDA c : HasColumn(df, c))

RECURSIVE SumSeq(_)
SumSeq(vals) == IF vals = <<>> THEN 0 ELSE NumVal(vals[1]) + SumSeq(Tail(vals))

\* df[cols].sum(): a series over cols, NaN skipped
SumSeries(df, cols) ==
    [index |-> cols,
     values |-> [i \in 1..Len(cols) |-> SumSeq(ColumnValues(df, ColIndex(df, cols[i])))]]

RECURSIVE Dedup(_)
\* the labels of s, each once, in the order of first appearance
Dedup(s) ==
    IF s = <<>> THEN <<>>
    ELSE LET d == Dedup(SubSeq(s, 1, Len(s) - 1)) IN
         IF \E i \in 1..Len(d) : d[i] = Last(s) THEN d ELSE Append(d, Last(s))

RECURSIVE UnionIndex(_)
UnionIndex(objs) ==
    IF objs = <<>> THEN <<>> ELSE Dedup(objs[1].index \o UnionIndex(Tail(objs)))

Min(a, b) == IF a < b THEN a ELSE b

\* the value of a series at a label: <<v>>, or <<>> (NaN) when it has none
At(series, label) ==
    IF \E i \in 1..Len(series.index) : series.index[i] = label
    THEN <<series.values[CHOOSE i \in 1..Len(series.index) : series.index[i] = label]>>
    ELSE <<>>

\* pd.concat(objs, axis=1, keys=keys): the keys are paired with the objects
\* in order, zip(keys, objs)
Concat(objs, keys) ==
    LET index == UnionIndex(objs) IN
    [index |-> index,
     columns |-> [k \in 1..Min(Len(keys), Len(objs)) |->
                     [key |-> keys[k],
                      values |-> [i \in 1..Len(index) |-> At(objs[k], index[i])]]]]

\* sum_df.fillna(0, inplace=True)
FillNa(df, v) ==
    [df EXCEPT !.columns =
        [k \in 1..Len(df.columns) |->
            [df.columns[k] EXCEPT !.values =
                [i \in 1..Len(df.index) |->
                    IF df.columns[k].values[i] = <<>> THEN <<v>>
                    ELSE df.columns[k].values[i]]]]]

\* data.keys()
Keys(d) == [i \in 1..Len(d) |-> d[i].field]

\* lines 172-182: a numeric field; the line chart raises or not
ReportNumeric ==
    /\ pc = "end"
    /\ field_idx < Len(data)
    /\ LET field == data[field_idx + 1].field
           df == data[field_idx + 1].df
       IN  /\ IsNumeric(df)
           /\ list_of_sums' = Append(list_of_sums, SumSeries(df, Cols(df)))
           /\ \E raises \in BOOLEAN :
                 /\ figures' = figures \o <<[field |-> field, kind |-> "box"]>>
                                       \o (IF raises THEN <<>>
                                           ELSE <<[field |-> field, kind |-> "line"]>>)
                 /\ line_failed' = IF raises THEN line_failed \cup {field}
                                    ELSE line_failed
    /\ field_idx' = field_idx + 1
    /\ UNCHANGED <<cursorVars, runVars, sum_df, no_data_warning, pc>>

\* lines 183-202: an enum-like field
ReportCategorical ==
    /\ pc = "end"
    /\ field_idx < Len(data)
    /\ LET field == data[field_idx + 1].field
           df == data[field_idx + 1].df
       IN  /\ ~IsNumeric(df)
           /\ figures' = figures \o <<[field |-> field, kind |-> "bar"],
                                      [field |-> field, kind |-> "num_changes"]>>
    /\ field_idx' = field_idx + 1
    /\ UNCHANGED <<cursorVars, runVars, list_of_sums, line_failed, sum_df,
                   no_data_warning, pc>>

\* the summary is always built
Mut_NothingToSum(sums) == FALSE

\* line 204
NothingToSum(sums) == sums = <<>>

\* lines 204-214
Summarize ==
    /\ pc = "end"
    /\ field_idx = Len(data)
    /\ IF NothingToSum(list_of_sums)
       THEN /\ no_data_warning' = TRUE
            /\ pc' = "done"
            /\ UNCHANGED <<sum_df, figures>>
       ELSE IF list_of_sums = <<>>
       THEN \* pd.concat of no objects: ValueError
            /\ pc' = "ValueError"
            /\ UNCHANGED <<sum_df, figures, no_data_warning>>
       ELSE /\ sum_df' = <<FillNa(Concat(list_of_sums, Keys(data)), 0)>>
            /\ figures' = Append(figures, [field |-> <<"s", "u", "m">>, kind |-> "line"])
            /\ pc' = "done"
            /\ UNCHANGED no_data_warning
    /\ UNCHANGED <<cursorVars, runVars, field_idx, list_of_sums, line_failed>>

InitMain ==
    /\ repo_commits \in UNION {Histories(n) : n \in 0..MaxRunCommits}
    /\ \A i \in 1..Len(repo_commits) :
          repo_commits[i].committed_datetime = [utc |-> 1, tz |-> 0]
    /\ start_date = <<>>
    /\ end_date = <<>>
    /\ start_commit = <<>>
    /\ end_commit = <<>>
    /\ select_commits = <<>>
    /\ iter_pos = 0
    /\ found_start_commit = FALSE
    /\ iter_exit = ""
    /\ head = <<>>
    /\ yielded = <<>>
    /\ pc = "iter"
    /\ ignore_col \in {{}, {FieldS}}
    /\ alt_commands \in {<<>>, <<"alt">>}
    /\ commit = <<>>
    /\ cmd_idx = 1
    /\ failed = <<>>
    /\ errors = <<>>
    /\ execs = <<>>
    /\ outfile = <<>>
    /\ commits = <<>>
    /\ data = <<>>
    /\ ingested = <<>>
    /\ InitReport

NextMain ==
    \/ IterNext \/ IterStop
    \/ RunCandidate \/ RetryNoPip
    \/ CommandFailed \/ OutputMissing \/ EmptyData \/ MissingIdCol \/ Ingest
    \/ ReportNumeric \/ ReportCategorical \/ Summarize

SpecMain == InitMain /\ [][NextMain]_vars

(***************************************************************************)
(* Claims about the traversal, checked under SpecCursor                    *)
(***************************************************************************)
\* position of commit c in the sorted history (hashes are unique)
PosOf(c) == CHOOSE i \in 1..Len(repo_commits) : SortedCommits(repo_commits)[i] = c

\* c passes every filter that was given
PassesAllFilters(c) ==
    /\ start_date # <<>> =>
          ~DtLess(c.committed_datetime, ReplaceTz(start_date[1], c.committed_datetime.tz))
    /\ end_date # <<>> =>
          ~DtLess(ReplaceTz(end_date[1], c.committed_datetime.tz), c.committed_datetime)
    /\ start_commit # <<>> =>
          \E j \in 1..PosOf(c) :
              StartsWith(SortedCommits(repo_commits)[j].hexsha, start_commit)
    /\ select_commits # <<>> =>
          \E i \in 1..Len(select_commits) : StartsWith(c.hexsha, select_commits[i])

\* C1: every commit that is checked out and yielded passes all the active
\* filters; with an allow-list, every yielded hash (the start commit's too)
\* starts with one of its prefixes.
C1_YieldedPassAllFilters == \A i \in 1..Len(yielded) : PassesAllFilters(yielded[i])

\* C2: when the loop stops at the first commit matching end_commit (the start
\* commit found before), that commit was checked out and yielded, as the last
\* element of the sequence.
C2_EndCommitYieldedLast ==
    (/\ iter_exit = "end_commit"
     /\ PassesAllFilters(SortedCommits(repo_commits)[iter_pos])) =>
        /\ yielded # <<>>
        /\ Last(yielded) = SortedCommits(repo_commits)[iter_pos]
        /\ StartsWith(Last(yielded).hexsha, end_commit)
        /\ head = <<Last(yielded)>>

\* C6 as stated: the yielded sequence is strictly ascending in commit
\* timestamp, also when two commits carry the same timestamp.
C6_StrictlyAscending ==
    \A i, j \in 1..Len(yielded) :
        i < j => yielded[i].committed_datetime.utc < yielded[j].committed_datetime.utc

\* C6 amended: the yielded sequence is ascending in commit timestamp, and
\* commits of equal timestamp may follow each other.
C6_Ascending ==
    \A i, j \in 1..Len(yielded) :
        i < j => yielded[i].committed_datetime.utc <= yielded[j].committed_datetime.utc

\* two commits of the same timestamp were yielded one after the other, and a
\* later commit after them
C6_Witness ==
    /\ Len(yielded) = 3
    /\ yielded[1].committed_datetime.utc = yielded[2].committed_datetime.utc
    /\ yielded[2].committed_datetime.utc < yielded[3].committed_datetime.utc
    /\ pc = "end"

(***************************************************************************)
(* Claims about the run, checked under SpecMain                            *)
(***************************************************************************)
\* every execution for the current commit left "error:" on its standard error
AllStderrTaggedError ==
    /\ execs # <<>>
    /\ \A i \in 1..Len(execs) : Contains(execs[i], "error:")

\* C3: when the standard error of every command executed for a commit holds
\* "error:", run_commands reports failure, and the commit is not appended to
\* commits nor folded into data before the traversal moves on.
C3_ErrorTagSkipsCommit ==
    /\ (pc = "read" /\ AllStderrTaggedError) => errors # <<>>
    /\ (pc = "iter" /\ AllStderrTaggedError) =>
          \A i \in 1..Len(ingested) : ingested[i].hexsha # commit[1].hexsha

\* column name c was made for short hash h: h itself, or h with a merge suffix
ColumnOf(c, h) == c = h \/ c = h \o <<"_", "x">> \/ c = h \o <<"_", "y">>

\* C4: each Field Table has at most one column per commit short hash; a
\* second ingest under the same short hash does not make a second column.
C4_OneColumnPerShortHash ==
    \A i \in 1..Len(data) : \A k \in 1..Len(commits) :
        Cardinality({j \in 2..Len(data[i].df.columns) :
                        ColumnOf(data[i].df.columns[j], commits[k])}) <= 1

Ids(df) == {df.rows[i][1] : i \in 1..Len(df.rows)}

\* the ingested snapshots that hold field fld, in the order of ingest
SnapshotsWith(fld) == SelectSeq(ingested, LAMBDA e : HasColumn(e.df, fld))

\* C5: the identifiers of each Field Table are the union of the identifiers of
\* the ingested snapshots that held the field, and an identifier that a
\* snapshot lacks has an absent value (NaN) in that snapshot's column.
C5_OuterJoin ==
    /\ \A i \in 1..Len(data) :
          LET df == data[i].df
              snaps == SnapshotsWith(data[i].field)
          IN  /\ Len(df.columns) = Len(snaps) + 1
              /\ Ids(df) = UNION {Ids(snaps[k].df) : k \in 1..Len(snaps)}
              /\ \A k \in 1..Len(snaps) : \A r \in 1..Len(df.rows) :
                    df.rows[r][1] \notin Ids(snaps[k].df) => df.rows[r][k + 1] = NaN
    /\ \A n \in 1..Len(ingested) : \A j \in 1..Len(ingested[n].df.columns) :
          LET col == ingested[n].df.columns[j] IN
          (col # id_col /\ col \notin ignore_col) =>
              \E i \in 1..Len(data) : data[i].field = col

\* a table of two snapshots, each with an identifier the other lacks
C5_Witness ==
    \E i \in 1..Len(data) :
        LET df == data[i].df IN
        /\ Len(df.columns) = 3
        /\ \E r \in 1..Len(df.rows) : df.rows[r][2] # NaN /\ df.rows[r][3] = NaN
        /\ \E r \in 1..Len(df.rows) : df.rows[r][2] = NaN /\ df.rows[r][3] # NaN

NumericFields == SelectSeq(data, LAMBDA e : IsNumeric(e.df))

\* C7: the summary table holds one series per numeric field, keyed by that
\* field's own name and holding that field's sums, zero where the field has
\* no data for a commit.
C7_SummaryKeyedByOwnField ==
    sum_df # <<>> =>
        LET t == sum_df[1] IN
        /\ Len(t.columns) = Len(NumericFields)
        /\ \A k \in 1..Len(t.columns) :
              LET own == SumSeries(NumericFields[k].df, Cols(NumericFields[k].df)) IN
              /\ t.columns[k].key = NumericFields[k].field
              /\ \A n \in 1..Len(t.index) :
                    t.columns[k].values[n] =
                        IF At(own, t.index[n]) = <<>> THEN <<0>> ELSE At(own, t.index[n])

\* C8: with no successful commit the summary is not attempted, the run warns
\* that no data was collected and ends without an error.
C8_NoDataCollected ==
    commits = <<>> =>
        /\ sum_df = <<>>
        /\ pc # "ValueError"
        /\ \A i \in 1..Len(figures) : figures[i].field # <<"s", "u", "m">>
        /\ pc = "done" => no_data_warning

\* both commits of a history were tried, none succeeded, and the run is over
C8_Witness ==
    /\ pc = "done"
    /\ commits = <<>>
    /\ Len(yielded) = 2
    /\ no_data_warning

HasFigure(field, kind) ==
    \E i \in 1..Len(figures) : figures[i] = [field |-> field, kind |-> kind]

\* C9: a numeric field has all of its artifacts (box chart, line chart, its
\* series in list_of_sums) or none of them.
C9_AllOrNothing ==
    /\ \A i \in 1..field_idx :
          IsNumeric(data[i].df) =>
              (HasFigure(data[i].field, "box") <=> HasFigure(data[i].field, "line"))
    /\ Len(list_of_sums) =
          Cardinality({i \in 1..field_idx :
                          IsNumeric(data[i].df) /\ HasFigure(data[i].field, "line")})

\* C10: what is folded into data under commit c was written to outfile
\* while c was checked out.
C10_Provenance ==
    \A i \in 1..Len(ingested) : ingested[i].written_at = ingested[i].hexsha

====
